---- MODULE Spec2Model ----
(***************************************************************************)
(* Printshop: parse -> resolve -> format pipeline.                         *)
(*                                                                         *)
(* Text is modelled as a sequence of one-character strings, so that the    *)
(* regular expressions of parseCardInput, the template string of           *)
(* formatForMoxfield, the cache key of batchLookup and the SQL text        *)
(* functions of lookupCard are computed character by character.            *)
(***************************************************************************)
EXTENDS Integers, Sequences, FiniteSets, TLC

VARIABLES
    \* the page (+page.svelte)
    inputText,           \* the textarea
    inputFile,           \* <<>> or <<file>>, file = [name, content]
    isProcessing,
    successCards,
    failedCards,
    hasRun,
    sortOrder,
    cardCache,           \* Map: cache key -> [found, result]
    cacheHits,
    cacheMisses,
    lastProcessedInput,
    lastProcessedFile,
    run,                 \* <<>> or the locals of the run suspended in fetch
    net,                 \* the HTTP exchange with /api/cards/batch
    runCount,            \* runs started so far
    \* the server
    catalog,             \* the rows of the cards table of MTG_CARDS_DB
    \* the pure-function specifications
    pc,                  \* the pipeline stage that has run ("in", "parsed", ...)
    pin,                 \* the input drawn
    pout                 \* the value the function under check returned

svars == <<inputText, inputFile, isProcessing, successCards, failedCards, hasRun,
           sortOrder, cardCache, cacheHits, cacheMisses, lastProcessedInput,
           lastProcessedFile, run, net, runCount, catalog>>

pvars == <<pc, pin, pout>>

vars == <<svars, pvars>>

Idle == [kind |-> "idle"]

\* the page's script block as first run: its let and const declarations
PageConstructed ==
    /\ inputText = <<>>
    /\ inputFile = <<>>
    /\ isProcessing = FALSE
    /\ successCards = <<>>
    /\ failedCards = <<>>
    /\ hasRun = FALSE
    /\ sortOrder = "oldest"
    /\ cardCache = <<>>
    /\ cacheHits = 0
    /\ cacheMisses = 0
    /\ lastProcessedInput = <<>>
    /\ lastProcessedFile = <<>>
    /\ run = <<>>
    /\ net = Idle
    /\ runCount = 0

-----------------------------------------------------------------------------
(* Characters and strings *)

UpperAlpha == <<"A","B","C","D","E","F","G","H","I","J","K","L","M",
                "N","O","P","Q","R","S","T","U","V","W","X","Y","Z">>

LowerAlpha == <<"a","b","c","d","e","f","g","h","i","j","k","l","m",
                "n","o","p","q","r","s","t","u","v","w","x","y","z">>

DigitChars == <<"0","1","2","3","4","5","6","7","8","9">>

Range(f) == {f[i] : i \in DOMAIN f}

MinOf(S) == CHOOSE x \in S : \A y \in S : x <= y

\* String.prototype.toLowerCase / SQL lower() on one character
ToLowerChar(c) ==
    IF c \in Range(UpperAlpha)
    THEN LowerAlpha[CHOOSE i \in DOMAIN UpperAlpha : UpperAlpha[i] = c]
    ELSE c

\* String.prototype.toUpperCase on one character
ToUpperChar(c) ==
    IF c \in Range(LowerAlpha)
    THEN UpperAlpha[CHOOSE i \in DOMAIN LowerAlpha : LowerAlpha[i] = c]
    ELSE c

toLowerCase(s) == [i \in 1..Len(s) |-> ToLowerChar(s[i])]

toUpperCase(s) == [i \in 1..Len(s) |-> ToUpperChar(s[i])]

\* the regular-expression classes \d, \s and [^\s]
IsDigit(c) == c \in Range(DigitChars)

IsSpace(c) == c \in {" ", "\t", "\n"}

InClass(c, cls) ==
    CASE cls = "digit"    -> IsDigit(c)
      [] cls = "space"    -> IsSpace(c)
      [] cls = "nonspace" -> ~IsSpace(c)

\* length of the longest run of characters of class cls that starts at s[i]
Span(s, i, cls) ==
    MinOf({k \in i..(Len(s) + 1) : k = Len(s) + 1 \/ ~InClass(s[k], cls)}) - i

\* String.prototype.trim
trim(s) ==
    LET keep == {k \in 1..Len(s) : ~IsSpace(s[k])}
    IN  IF keep = {} THEN <<>>
        ELSE SubSeq(s, MinOf(keep), CHOOSE k \in keep : \A j \in keep : j <= k)

\* String.prototype.split(ch) for a one-character separator
RECURSIVE split(_, _)
split(s, ch) ==
    LET at == {k \in 1..Len(s) : s[k] = ch}
    IN  IF at = {} THEN <<s>>
        ELSE <<SubSeq(s, 1, MinOf(at) - 1)>>
                 \o split(SubSeq(s, MinOf(at) + 1, Len(s)), ch)

\* Array.prototype.join(sep)
RECURSIVE join(_, _)
join(parts, sep) ==
    IF Len(parts) = 0 THEN <<>>
    ELSE IF Len(parts) = 1 THEN parts[1]
    ELSE parts[1] \o sep \o join(Tail(parts), sep)

\* parseInt(digits, 10) on a string of decimal digits
RECURSIVE parseInt(_)
parseInt(ds) ==
    IF Len(ds) = 0 THEN 0
    ELSE 10 * parseInt(SubSeq(ds, 1, Len(ds) - 1))
         + (CHOOSE i \in DOMAIN DigitChars : DigitChars[i] = ds[Len(ds)]) - 1

\* `${n}` for a non-negative integer n: decimal digits, no leading zero
RECURSIVE NumberToString(_)
NumberToString(n) ==
    IF n < 10 THEN <<DigitChars[n + 1]>>
    ELSE NumberToString(n \div 10) \o <<DigitChars[(n % 10) + 1]>>

-----------------------------------------------------------------------------
(* parseCardInput *)

\* mutant: the quantity pattern without its optional x, /^(\d+)\s+/
QuantityMatchLen_NoX(r) ==
    LET d == Span(r, 1, "digit")
        w == Span(r, d + 1, "space")
    IN  IF d >= 1 /\ w >= 1 THEN d + w ELSE 0

\* remaining.match(/^(\d+)x?\s+/i): the matched length, 0 when there is no match
QuantityMatchLen(r) ==
    LET d == Span(r, 1, "digit")
        x == IF d + 1 <= Len(r) /\ r[d + 1] \in {"x", "X"} THEN 1 ELSE 0
        w == Span(r, d + x + 1, "space")
    IN  IF d >= 1 /\ w >= 1 THEN d + x + w ELSE 0

\* number of characters of class cls at the end of s
TrailSpan(s, cls) ==
    MinOf({k \in 0..Len(s) : k = Len(s) \/ ~InClass(s[Len(s) - k], cls)})

\* remaining.match(/\s+\*([FE])\*\s*$/i): 0 when there is no match, else the
\* position of the finish letter
FoilMatchAt(r) ==
    LET t == Len(r) - TrailSpan(r, "space")
    IN  IF /\ t >= 4
           /\ r[t] = "*"
           /\ r[t - 2] = "*"
           /\ ToUpperChar(r[t - 1]) \in {"F", "E"}
           /\ IsSpace(r[t - 3])
        THEN t - 1 ELSE 0

\* whether /\([^)]+\)\s+[^\s]+\s*$/ matches r from the "(" at position a,
\* preceded by the \s+ of the whole pattern
SetGroupAt(r, a) ==
    /\ a >= 2
    /\ r[a] = "("
    /\ IsSpace(r[a - 1])
    /\ LET closes == {k \in (a + 1)..Len(r) : r[k] = ")"}
       IN  /\ closes # {}
           /\ LET c == MinOf(closes)
                  w == Span(r, c + 1, "space")
                  t == Span(r, c + 1 + w, "nonspace")
              IN  /\ c >= a + 2
                  /\ w >= 1
                  /\ t >= 1
                  /\ c + w + t + Span(r, c + 1 + w + t, "space") = Len(r)

\* mutant: the "(SET) collector" group is left in place
StripSetGroup_Keep(r) == trim(r)

\* remaining.replace(/\s+\([^)]+\)\s+[^\s]+\s*$/i, '').trim()
StripSetGroup(r) ==
    LET starts == {a \in 1..Len(r) : SetGroupAt(r, a)}
    IN  IF starts = {} THEN trim(r)
        ELSE trim(SubSeq(r, 1, MinOf(starts) - 1))

\* mutant: the name is left as written
ReplaceSlash_Keep(r, i) == SubSeq(r, i, Len(r))

\* remaining.replace(/\s+\/\s+/g, ' // '), scanning from position i
RECURSIVE ReplaceSlash(_, _)
ReplaceSlash(r, i) ==
    IF i > Len(r) THEN <<>>
    ELSE LET w1 == Span(r, i, "space")
             j  == i + w1
             w2 == Span(r, j + 1, "space")
         IN  IF w1 >= 1 /\ j <= Len(r) /\ r[j] = "/" /\ w2 >= 1
             THEN <<" ", "/", "/", " ">> \o ReplaceSlash(r, j + 1 + w2)
             ELSE <<r[i]>> \o ReplaceSlash(r, i + 1)

\* the body of the for loop of parseCardInput: the cards one line adds
ParseLine(line) ==
    LET parts == split(line, "#")
        lineWithoutTags == parts[1]
        tagParts == Tail(parts)
        tags == join([k \in 1..Len(tagParts) |-> <<"#">> \o trim(tagParts[k])],
                     <<" ">>)
        r0 == trim(lineWithoutTags)
        qlen == QuantityMatchLen(r0)
        quantity == IF qlen > 0
                    THEN parseInt(SubSeq(r0, 1, Span(r0, 1, "digit")))
                    ELSE 1
        r1 == IF qlen > 0 THEN trim(SubSeq(r0, qlen + 1, Len(r0))) ELSE r0
        fpos == FoilMatchAt(r1)
        foilStatus == IF fpos > 0 THEN <<ToUpperChar(r1[fpos])>> ELSE <<>>
        r2 == IF fpos > 0 THEN trim(SubSeq(r1, 1, fpos - 2)) ELSE r1
        r3 == StripSetGroup(r2)
        cardName == ReplaceSlash(r3, 1)
    IN  IF cardName = <<>> THEN <<>>
        ELSE <<[name |-> cardName, quantity |-> quantity,
                foilStatus |-> foilStatus, tags |-> tags]>>

RECURSIVE ParseLines(_)
ParseLines(lines) ==
    IF Len(lines) = 0 THEN <<>>
    ELSE ParseLine(lines[1]) \o ParseLines(Tail(lines))

parseCardInput(input) ==
    LET raw == split(input, "\n")
        trimmed == [k \in 1..Len(raw) |-> trim(raw[k])]
    IN  ParseLines(SelectSeq(trimmed, LAMBDA l : Len(l) > 0))

-----------------------------------------------------------------------------
(* Inputs of the parser specification: a line assembled from parts *)

MaxQty == 12

QtyValues == {0, 1, 4, MaxQty}

QtyStyles == {"sp", "x", "X", "bare"}

NoQty == [n |-> 1, style |-> "none"]

QtyInputs == {NoQty} \cup [n : QtyValues, style : QtyStyles]

QtyText(q) ==
    CASE q.style = "none" -> <<>>
      [] q.style = "sp"   -> NumberToString(q.n) \o <<" ">>
      [] q.style = "x"    -> NumberToString(q.n) \o <<"x", " ">>
      [] q.style = "X"    -> NumberToString(q.n) \o <<"X", " ">>
      [] q.style = "bare" -> NumberToString(q.n)

\* card names in the catalog's canonical form
CanonNames == { <<"A","b">>,
                <<"B","i","g"," ","S">>,
                <<"A"," ","/","/"," ","B">>,
                <<"B"," ","(","C",")">>,
                <<"2"," ","D","o">> }

\* names written with single slashes between the faces
SlashNames == { <<"A"," ","/"," ","B">>,
                <<"A"," ","/"," ","B"," ","/"," ","C">>,
                <<"A"," ","/"," ","/"," ","B">> }

NameInputs == CanonNames \cup SlashNames \cup { <<>> }

NoGroup == [set |-> <<>>, coll |-> <<>>]

GroupInputs == { NoGroup,
                 [set |-> <<"k","h","m">>, coll |-> <<"3","1","1">>],
                 [set |-> <<"K","2">>, coll |-> <<"2","X","-","7">>] }

GroupText(g) ==
    IF g = NoGroup THEN <<>>
    ELSE <<" ", "(">> \o g.set \o <<")", " ">> \o g.coll

FinInputs == { <<>>, <<"*","F","*">>, <<"*","E","*">>, <<"*","f","*">>,
               <<"*","e","*">>, <<"F">>, <<"E">> }

FinText(f) == IF f = <<>> THEN <<>> ELSE <<" ">> \o f

TagInputs == { <<>>, << <<"t">> >>, << <<"t">>, <<"u"," ","v">> >>,
               << <<" ","t">> >> }

RECURSIVE TagsText(_)
TagsText(ts) ==
    IF Len(ts) = 0 THEN <<>>
    ELSE <<" ", "#">> \o ts[1] \o TagsText(Tail(ts))

TailInputs == { <<>>, <<"\n", " ", "\t">> }

LineInputs ==
    [qty : QtyInputs, name : NameInputs, grp : GroupInputs, fin : FinInputs,
     tags : TagInputs, tail : TailInputs]

LineText(l) ==
    QtyText(l.qty) \o l.name \o GroupText(l.grp) \o FinText(l.fin)
        \o TagsText(l.tags) \o l.tail

-----------------------------------------------------------------------------
(* The parser specification: parseCardInput applied to one assembled text *)

InitParse ==
    /\ PageConstructed
    /\ catalog = <<>>
    /\ pc = "in"
    /\ pin \in LineInputs
    /\ pout = <<>>

Parse ==
    /\ pc = "in"
    /\ pout' = parseCardInput(LineText(pin))
    /\ pc' = "parsed"
    /\ UNCHANGED <<pin, svars>>

\* the name of the card just parsed, given to parseCardInput as a line
Reparse ==
    /\ pc = "parsed"
    /\ Len(pout) = 1
    /\ pout' = [first |-> pout, again |-> parseCardInput(pout[1].name)]
    /\ pc' = "reparsed"
    /\ UNCHANGED <<pin, svars>>

NextParse == Parse \/ Reparse

SpecParse == InitParse /\ [][NextParse]_vars

-----------------------------------------------------------------------------
(* lookupCard: the catalog queries of the batch endpoint *)

\* SQL lower(): ASCII letters only
SqlLower(s) == toLowerCase(s)

\* SQL CAST(collector_number AS INTEGER): the leading digits, 0 without any
CastInteger(s) ==
    LET d == Span(s, 1, "digit")
    IN  IF d = 0 THEN 0 ELSE parseInt(SubSeq(s, 1, d))

\* SQL "t LIKE p": % matches any run of characters, _ any one character
RECURSIVE LikeMatch(_, _)
LikeMatch(t, p) ==
    IF Len(p) = 0 THEN Len(t) = 0
    ELSE IF p[1] = "%"
         THEN \E k \in 0..Len(t) : LikeMatch(SubSeq(t, k + 1, Len(t)), Tail(p))
         ELSE /\ Len(t) > 0
              /\ (p[1] = "_" \/ ToLowerChar(p[1]) = ToLowerChar(t[1]))
              /\ LikeMatch(Tail(t), Tail(p))

\* cardName.split(/[\s,/]/)[0] || cardName
FirstWord(cardName) ==
    LET seps == {k \in 1..Len(cardName) :
                     IsSpace(cardName[k]) \/ cardName[k] \in {",", "/"}}
        first == IF seps = {} THEN cardName
                 ELSE SubSeq(cardName, 1, MinOf(seps) - 1)
    IN  IF first = <<>> THEN cardName ELSE first

\* released_at is <<>> for SQL NULL, else <<date>>; the text order of the ISO
\* dates of the catalog is the order of the integers that stand for them
IsNull(d) == d = <<>>

\* mutant: the collector number ascending under both policies
SortsBefore_AscCollector(a, b, order) ==
    LET na == IF IsNull(a.released_at) THEN 1 ELSE 0
        nb == IF IsNull(b.released_at) THEN 1 ELSE 0
    IN  \/ na < nb
        \/ /\ na = nb
           /\ na = 0
           /\ IF order = "newest"
              THEN a.released_at[1] > b.released_at[1]
              ELSE a.released_at[1] < b.released_at[1]
        \/ /\ na = nb
           /\ (na = 1 \/ a.released_at[1] = b.released_at[1])
           /\ CastInteger(a.collector_number) < CastInteger(b.collector_number)

\* orderClause: whether row a sorts strictly before row b
SortsBefore(a, b, order) ==
    LET na == IF IsNull(a.released_at) THEN 1 ELSE 0
        nb == IF IsNull(b.released_at) THEN 1 ELSE 0
        ca == CastInteger(a.collector_number)
        cb == CastInteger(b.collector_number)
    IN  \/ na < nb
        \/ /\ na = nb
           /\ na = 0
           /\ IF order = "newest"
              THEN a.released_at[1] > b.released_at[1]
              ELSE a.released_at[1] < b.released_at[1]
        \/ /\ na = nb
           /\ (na = 1 \/ a.released_at[1] = b.released_at[1])
           /\ IF order = "newest" THEN ca > cb ELSE ca < cb

\* "... ORDER BY orderClause LIMIT 1" over the rows at positions rows of db:
\* the position of the first row, 0 when no row qualifies. Rows that the
\* ORDER BY leaves tied come out in storage order.
FirstRow(db, rows, order) ==
    IF rows = {} THEN 0
    ELSE MinOf({i \in rows : \A j \in rows : ~SortsBefore(db[j], db[i], order)})

\* WHERE lower(name) LIKE lower(?), bound to `%${firstWord}%`
LikeRows(db, firstWord) ==
    {i \in DOMAIN db :
        LikeMatch(SqlLower(db[i].name), SqlLower(<<"%">> \o firstWord \o <<"%">>))}

\* mutant: the first attempt matches by substring, as the fallback does
ExactRows_Substring(db, cardName) == LikeRows(db, cardName)

\* WHERE lower(name) = lower(?)
ExactRows(db, cardName) ==
    {i \in DOMAIN db : SqlLower(db[i].name) = SqlLower(cardName)}

\* JSON.parse(result.finishes || '[]') and the two includes() tests
DetectFoilStatus(finishes) ==
    IF ~finishes.valid THEN <<>>
    ELSE IF "foil" \in finishes.items THEN <<"F">>
    ELSE IF "etched" \in finishes.items THEN <<"E">>
    ELSE <<>>

\* the value lookupCard returns; result is <<>> for null, else <<card>>
NotFound(inputCard) ==
    [found |-> FALSE, originalCard |-> inputCard, result |-> <<>>]

Found(inputCard, row) ==
    [found |-> TRUE, originalCard |-> inputCard,
     result |-> <<[name |-> row.name, set_code |-> row.set_code,
                   collector_number |-> row.collector_number,
                   released_at |-> row.released_at, finishes |-> row.finishes,
                   foilStatus |-> DetectFoilStatus(row.finishes)]>>]

\* lookupCard with the queries it issued (its console log): fault names the
\* query that D1 fails ("exact", "like") or is "none"
LookupTrace(inputCard, db, order, fault) ==
    LET cardName == trim(inputCard.name)
        exact == FirstRow(db, ExactRows(db, cardName), order)
        like == FirstRow(db, LikeRows(db, FirstWord(cardName)), order)
    IN  IF cardName = <<>>
        THEN [out |-> NotFound(inputCard), queries |-> <<>>, threw |-> FALSE]
        ELSE IF fault = "exact"
        THEN [out |-> NotFound(inputCard), queries |-> <<"exact">>, threw |-> TRUE]
        ELSE IF exact # 0
        THEN [out |-> Found(inputCard, db[exact]), queries |-> <<"exact">>,
              threw |-> FALSE]
        ELSE IF fault = "like"
        THEN [out |-> NotFound(inputCard), queries |-> <<"exact", "like">>,
              threw |-> TRUE]
        ELSE IF like # 0
        THEN [out |-> Found(inputCard, db[like]), queries |-> <<"exact", "like">>,
              threw |-> FALSE]
        ELSE [out |-> NotFound(inputCard), queries |-> <<"exact", "like">>,
              threw |-> FALSE]

lookupCard(inputCard, db, order, fault) ==
    LookupTrace(inputCard, db, order, fault).out

-----------------------------------------------------------------------------
(* Catalogs and requests of the lookup specification *)

N_Isle == <<"I","s","l","e">>

N_Isles == <<"I","s","l","e","s">>

Finishes(valid, items) == [valid |-> valid, items |-> items]

Row(name, set, coll, date, fin) ==
    [name |-> name, set_code |-> set, collector_number |-> coll,
     released_at |-> date, finishes |-> fin]

RowPool ==
    { Row(N_Isle, <<"l","e","a">>, <<"7">>, <<1993>>, Finishes(TRUE, {"nonfoil"})),
      Row(N_Isle, <<"m","1","1">>, <<"1","2">>, <<2011>>,
          Finishes(TRUE, {"nonfoil", "foil"})),
      Row(N_Isle, <<"u","n","k">>, <<"3">>, <<>>, Finishes(TRUE, {"etched"})),
      Row(N_Isle, <<"p","m","1">>, <<"7","a">>, <<1993>>, Finishes(FALSE, {})),
      Row(N_Isle, <<"m","1","b">>, <<"2">>, <<2011>>, Finishes(TRUE, {})),
      Row(N_Isle, <<"u","n","2">>, <<"U","1">>, <<>>, Finishes(TRUE, {"foil"})),
      Row(N_Isles, <<"o","l","d">>, <<"U","3">>, <<1990>>,
          Finishes(TRUE, {"etched", "foil"})) }

\* the catalogs of at most n distinct rows of the pool, in every storage order
RECURSIVE CatalogsUpTo(_)
CatalogsUpTo(n) ==
    IF n = 0 THEN { <<>> }
    ELSE LET shorter == CatalogsUpTo(n - 1)
         IN  shorter \cup
             { Append(c, r) : c \in {d \in shorter : Len(d) = n - 1},
                              r \in RowPool }

Distinct(c) == \A i, j \in DOMAIN c : i # j => c[i] # c[j]

MaxRows == 3

Catalogs == {c \in CatalogsUpTo(MaxRows) : Distinct(c)}

SortOrders == {"oldest", "newest"}

Faults == {"none", "exact", "like"}

ReqNames == { N_Isle,
              <<"I","S","L","E">>,
              <<"I","s","l">>,
              <<"I","s","l","e"," ","Z","z">>,
              <<"Z","z">> }

Request(name) == [name |-> name, quantity |-> 1, foilStatus |-> <<>>, tags |-> <<>>]

InitLookup ==
    /\ PageConstructed
    /\ catalog = <<>>
    /\ pc = "in"
    /\ pin \in [db : Catalogs, name : ReqNames, sortOrder : SortOrders,
                fault : Faults]
    /\ pout = <<>>

Lookup ==
    /\ pc = "in"
    /\ pout' = LookupTrace(Request(pin.name), pin.db, pin.sortOrder, pin.fault)
    /\ pc' = "looked"
    /\ UNCHANGED <<pin, svars>>

NextLookup == Lookup

SpecLookup == InitLookup /\ [][NextLookup]_vars

-----------------------------------------------------------------------------
(* The batch endpoint, formatForMoxfield and processBatch *)

batchSize == 50

\* faults: the set of [name, kind] of the requests whose D1 query fails
FaultFor(card, faults) ==
    IF \E f \in faults : f.name = card.name
    THEN (CHOOSE f \in faults : f.name = card.name).kind
    ELSE "none"

\* the for loop of POST: slices of batchSize cards, each looked up with
\* Promise.all, appended in order (from is the 1-based start of the slice)
RECURSIVE BatchLoop(_, _, _, _, _)
BatchLoop(cards, from, db, order, faults) ==
    IF from > Len(cards) THEN <<>>
    ELSE LET upto == IF from + batchSize - 1 < Len(cards)
                     THEN from + batchSize - 1 ELSE Len(cards)
             batch == SubSeq(cards, from, upto)
             batchResults ==
                 [k \in 1..Len(batch) |->
                     lookupCard(batch[k], db, order, FaultFor(batch[k], faults))]
         IN  batchResults \o BatchLoop(cards, from + batchSize, db, order, faults)

\* POST /api/cards/batch: sortOrder is "" when the body carries none
POST(cards, order, db, faults) ==
    IF Len(cards) = 0
    THEN [ok |-> FALSE, results |-> <<>>]
    ELSE [ok |-> TRUE,
          results |-> BatchLoop(cards, 1, db,
                                IF order = "" THEN "oldest" ELSE order,
                                faults)]

\* mutant: the set code as stored, not uppercased
formatForMoxfield_RawSetCode(dbResult, originalInput) ==
    IF ~dbResult.found \/ dbResult.card = <<>> THEN <<>>
    ELSE LET card == dbResult.card[1]
             foilStatus == IF originalInput.foilStatus # <<>>
                           THEN originalInput.foilStatus
                           ELSE card.foilStatus
         IN  NumberToString(originalInput.quantity) \o <<" ">> \o card.name
                 \o <<" ", "(">> \o card.set_code \o <<")", " ">>
                 \o card.collector_number
                 \o (IF foilStatus # <<>>
                     THEN <<" ", "*">> \o foilStatus \o <<"*">> ELSE <<>>)
                 \o (IF originalInput.tags # <<>>
                     THEN <<" ">> \o originalInput.tags ELSE <<>>)

\* mutant: the finish letter without its asterisks, as in the README's input
formatForMoxfield_BareFinish(dbResult, originalInput) ==
    IF ~dbResult.found \/ dbResult.card = <<>> THEN <<>>
    ELSE LET card == dbResult.card[1]
             foilStatus == IF originalInput.foilStatus # <<>>
                           THEN originalInput.foilStatus
                           ELSE card.foilStatus
         IN  NumberToString(originalInput.quantity) \o <<" ">> \o card.name
                 \o <<" ", "(">> \o toUpperCase(card.set_code) \o <<")", " ">>
                 \o card.collector_number
                 \o (IF foilStatus # <<>> THEN <<" ">> \o foilStatus ELSE <<>>)
                 \o (IF originalInput.tags # <<>>
                     THEN <<" ">> \o originalInput.tags ELSE <<>>)

\* mutant: the printing's finish is preferred to the one the line asked for
formatForMoxfield_CatalogFinish(dbResult, originalInput) ==
    IF ~dbResult.found \/ dbResult.card = <<>> THEN <<>>
    ELSE LET card == dbResult.card[1]
             foilStatus == IF card.foilStatus # <<>>
                           THEN card.foilStatus
                           ELSE originalInput.foilStatus
         IN  NumberToString(originalInput.quantity) \o <<" ">> \o card.name
                 \o <<" ", "(">> \o toUpperCase(card.set_code) \o <<")", " ">>
                 \o card.collector_number
                 \o (IF foilStatus # <<>>
                     THEN <<" ", "*">> \o foilStatus \o <<"*">> ELSE <<>>)
                 \o (IF originalInput.tags # <<>>
                     THEN <<" ">> \o originalInput.tags ELSE <<>>)

formatForMoxfield(dbResult, originalInput) ==
    IF ~dbResult.found \/ dbResult.card = <<>> THEN <<>>
    ELSE LET card == dbResult.card[1]
             setCode == toUpperCase(card.set_code)
             foilStatus == IF originalInput.foilStatus # <<>>
                           THEN originalInput.foilStatus
                           ELSE card.foilStatus
             finishSuffix == IF foilStatus # <<>>
                             THEN <<" ", "*">> \o foilStatus \o <<"*">>
                             ELSE <<>>
             tagsSuffix == IF originalInput.tags # <<>>
                           THEN <<" ">> \o originalInput.tags
                           ELSE <<>>
         IN  NumberToString(originalInput.quantity) \o <<" ">> \o card.name
                 \o <<" ", "(">> \o setCode \o <<")", " ">>
                 \o card.collector_number \o finishSuffix \o tagsSuffix

NotFoundReason == "Card not found in database"

\* the loop of the try block of processBatch over results.results
RECURSIVE ProcessResults(_, _)
ProcessResults(results, acc) ==
    IF Len(results) = 0 THEN acc
    ELSE LET result == results[1]
             formatted == formatForMoxfield([found |-> TRUE, card |-> result.result],
                                            result.originalCard)
             next ==
                 IF result.found /\ result.result # <<>>
                 THEN IF formatted # <<>>
                      THEN [acc EXCEPT !.success = Append(@, formatted)]
                      ELSE acc
                 ELSE [acc EXCEPT !.failed =
                          Append(@, [name |-> result.originalCard.name,
                                     reason |-> NotFoundReason])]
         IN  ProcessResults(Tail(results), next)

\* what batchLookupFn settles to: resolved with results, or rejected with a
\* value that is an Error (with its message) or is not
Resolved(results) == [kind |-> "resolved", results |-> results, message |-> ""]

Rejected(isError, message) ==
    [kind |-> IF isError THEN "error" ELSE "thrown", results |-> <<>>,
     message |-> message]

\* mutant: no catch block, the rejection of the lookup is the result
processBatch_Propagate(parsedCards, settled) ==
    IF settled.kind = "resolved"
    THEN ProcessResults(settled.results, [success |-> <<>>, failed |-> <<>>])
    ELSE settled

processBatch(parsedCards, settled) ==
    IF settled.kind = "resolved"
    THEN ProcessResults(settled.results, [success |-> <<>>, failed |-> <<>>])
    ELSE [success |-> <<>>,
          failed |-> [k \in 1..Len(parsedCards) |->
                         [name |-> parsedCards[k].name,
                          reason |-> IF settled.kind = "error"
                                     THEN settled.message
                                     ELSE "Unknown error"]]]

\* parse -> lookup -> format without the session cache
Resolve(text, order, db, faults) ==
    LET parsedCards == parseCardInput(text)
        response == POST(parsedCards, order, db, faults)
    IN  [parsed |-> parsedCards,
         results |-> response.results,
         first |-> processBatch(parsedCards, Resolved(response.results))]

-----------------------------------------------------------------------------
(* The resolve specification: one line resolved, then each rendered line fed
   back through the parser and the resolver *)

N_BC == <<"B"," ","(","C",")">>

ResolvePool ==
    { Row(N_Isle, <<"l","e","a">>, <<"7">>, <<1993>>, Finishes(TRUE, {"nonfoil"})),
      Row(N_Isle, <<"m","1","1">>, <<"1","2">>, <<2011>>,
          Finishes(TRUE, {"nonfoil", "foil"})),
      Row(N_Isle, <<"p","m","1">>, <<"7","a">>, <<1993>>, Finishes(FALSE, {})),
      Row(N_Isles, <<"o","l","d">>, <<"U","3">>, <<1990>>,
          Finishes(TRUE, {"etched"})),
      Row(N_BC, <<"u","n","k">>, <<"3">>, <<>>, Finishes(TRUE, {"etched", "foil"})) }

RECURSIVE ResolveCatalogsUpTo(_)
ResolveCatalogsUpTo(n) ==
    IF n = 0 THEN { <<>> }
    ELSE LET shorter == ResolveCatalogsUpTo(n - 1)
         IN  shorter \cup
             { Append(c, r) : c \in {d \in shorter : Len(d) = n - 1},
                              r \in ResolvePool }

MaxResolveRows == 2

ResolveCatalogs == {c \in ResolveCatalogsUpTo(MaxResolveRows) : Distinct(c)}

ResolveLines ==
    [qty : {NoQty, [n |-> MaxQty, style |-> "x"], [n |-> 0, style |-> "sp"]},
     name : {N_Isle, <<"I","S","L","E">>, <<"I","s","l">>, <<"Z","z">>, N_BC},
     grp : {NoGroup},
     fin : { <<>>, <<"*","F","*">>, <<"*","e","*">> },
     tags : { <<>>, << <<"t">>, <<"u"," ","v">> >> },
     tail : { <<>> }]

\* at most one failing query, for the one name of the line
LineFaults(l) == { {} } \cup { {[name |-> l.name, kind |-> k]} : k \in {"exact", "like"} }

InitResolve ==
    /\ PageConstructed
    /\ catalog = <<>>
    /\ pc = "in"
    /\ \E db \in ResolveCatalogs, l \in ResolveLines, so \in SortOrders :
          \E fs \in LineFaults(l) :
              pin = [db |-> db, line |-> l, sortOrder |-> so, faults |-> fs]
    /\ pout = <<>>

ResolveLine ==
    /\ pc = "in"
    /\ pout' = Resolve(LineText(pin.line), pin.sortOrder, pin.db, pin.faults)
    /\ pc' = "resolved"
    /\ UNCHANGED <<pin, svars>>

\* every rendered line is the text of a new run, against the same catalog
\* under the same policy, whose queries succeed
RoundTrip ==
    /\ pc = "resolved"
    /\ pout' = [again |-> [k \in 1..Len(pout.first.success) |->
                              Resolve(pout.first.success[k], pin.sortOrder,
                                      pin.db, {}).first]]
                   @@ pout
    /\ pc' = "again"
    /\ UNCHANGED <<pin, svars>>

NextResolve == ResolveLine \/ RoundTrip

SpecResolve == InitResolve /\ [][NextResolve]_vars

-----------------------------------------------------------------------------
(* The page: session cache, batchLookup and handleProcess *)

SortOrderText(so) ==
    IF so = "newest" THEN <<"n","e","w","e","s","t">>
    ELSE <<"o","l","d","e","s","t">>

\* mutant: the cache is keyed by the name alone
CacheKey_NameOnly(card, so) == toLowerCase(card.name)

\* `${card.name.toLowerCase()}_${sortOrder}`
CacheKey(card, so) == toLowerCase(card.name) \o <<"_">> \o SortOrderText(so)

\* the forEach of batchLookup over cards, from card i on: acc holds
\* cachedResults, uncachedCards, cardIndexMap and the two counters
RECURSIVE CheckCache(_, _, _, _, _)
CheckCache(cards, i, cache, so, acc) ==
    IF i > Len(cards) THEN acc
    ELSE LET card == cards[i]
             cacheKey == CacheKey(card, so)
         IN  IF cacheKey \in DOMAIN cache
             THEN CheckCache(cards, i + 1, cache, so,
                      [acc EXCEPT
                          !.cachedResults =
                              Append(@, [found |-> cache[cacheKey].found,
                                         originalCard |-> card,
                                         result |-> cache[cacheKey].result]),
                          !.cardIndexMap = Append(@, Len(acc.cachedResults)),
                          !.cacheHits = @ + 1])
             ELSE CheckCache(cards, i + 1, cache, so,
                      [acc EXCEPT
                          !.cardIndexMap = Append(@, 0 - Len(acc.uncachedCards) - 1),
                          !.uncachedCards = Append(@, card),
                          !.cacheMisses = @ + 1])

\* data.results.forEach(...): cardCache.set for every fresh result
RECURSIVE StoreResults(_, _, _, _)
StoreResults(cache, results, uncachedCards, so) ==
    IF Len(results) = 0 THEN cache
    ELSE StoreResults(
             (CacheKey(uncachedCards[1], so)
                  :> [found |-> results[1].found, result |-> results[1].result])
                 @@ cache,
             Tail(results), Tail(uncachedCards), so)

\* mutant: the cached results are put before the fetched ones
MergeResults_CachedFirst(cardIndexMap, i, cachedResults, fresh, uncachedIdx) ==
    cachedResults \o fresh

\* mutant: the results fetched are returned without the cached ones
MergeResults_FreshOnly(cardIndexMap, i, cachedResults, fresh, uncachedIdx) == fresh

\* the merge loop of batchLookup from card i on (cardIndexMap holds the
\* code's 0-based positions; uncachedIdx counts the fresh results taken)
RECURSIVE MergeResults(_, _, _, _, _)
MergeResults(cardIndexMap, i, cachedResults, fresh, uncachedIdx) ==
    IF i > Len(cardIndexMap) THEN <<>>
    ELSE IF cardIndexMap[i] >= 0
         THEN <<cachedResults[cardIndexMap[i] + 1]>>
                  \o MergeResults(cardIndexMap, i + 1, cachedResults, fresh,
                                  uncachedIdx)
         ELSE <<fresh[uncachedIdx + 1]>>
                  \o MergeResults(cardIndexMap, i + 1, cachedResults, fresh,
                                  uncachedIdx + 1)

getInputHash == IF inputFile # <<>> THEN inputFile[1].name ELSE inputText

hasInputChanged ==
    getInputHash # lastProcessedInput \/ getInputHash # lastProcessedFile

L_Input == <<"I","n","p","u","t">>

NoChangesFailure ==
    [name |-> L_Input,
     reason |-> "No changes detected. Modify your card input or select a different file to process."]

NoListFailure == [name |-> L_Input, reason |-> "No card list provided"]

NoValidFailure == [name |-> L_Input, reason |-> "No valid cards found in input"]

\* disabled={...} of the Process button
ProcessDisabled ==
    \/ isProcessing
    \/ (trim(inputText) = <<>> /\ inputFile = <<>>)
    \/ (hasRun /\ ~hasInputChanged)

\* mutant: the run ends without resetting isProcessing, as with no finally block
Finish_StillProcessing(parsedCards, chk, allResults, settled) ==
    LET results == processBatch(parsedCards, settled)
    IN  /\ successCards' = results.success
        /\ failedCards' = results.failed
        /\ lastProcessedInput' = inputText
        /\ lastProcessedFile' = (IF inputFile # <<>> THEN inputFile[1].name ELSE <<>>)
        /\ isProcessing' = isProcessing
        /\ net' = Idle
        /\ run' = [stage |-> "done", parsedCards |-> parsedCards,
                   settled |-> settled, allResults |-> allResults,
                   results |-> results,
                   cachedResults |-> chk.cachedResults,
                   cardIndexMap |-> chk.cardIndexMap,
                   sortOrder |-> sortOrder]

\* the end of handleProcess once processBatch has returned; chk holds what
\* the cache check of batchLookup found, allResults what batchLookup returned
Finish(parsedCards, chk, allResults, settled) ==
    LET results == processBatch(parsedCards, settled)
    IN  /\ successCards' = results.success
        /\ failedCards' = results.failed
        /\ lastProcessedInput' = inputText
        /\ lastProcessedFile' = (IF inputFile # <<>> THEN inputFile[1].name ELSE <<>>)
        /\ isProcessing' = FALSE
        /\ net' = Idle
        /\ run' = [stage |-> "done", parsedCards |-> parsedCards,
                   settled |-> settled, allResults |-> allResults,
                   results |-> results,
                   cachedResults |-> chk.cachedResults,
                   cardIndexMap |-> chk.cardIndexMap,
                   sortOrder |-> sortOrder]

MaxRuns == 2

\* a click on Process: handleProcess up to the fetch of batchLookup, or to
\* its end when it never reaches one (reading the file does not interleave
\* with anything but clearCache, which commutes with it)
handleProcess ==
    /\ ~ProcessDisabled
    /\ runCount < MaxRuns
    /\ runCount' = runCount + 1
    /\ LET text == IF inputFile # <<>> THEN inputFile[1].content ELSE inputText
           parsedCards == parseCardInput(text)
           chk == CheckCache(parsedCards, 1, cardCache, sortOrder,
                             [cachedResults |-> <<>>, uncachedCards |-> <<>>,
                              cardIndexMap |-> <<>>, cacheHits |-> cacheHits,
                              cacheMisses |-> cacheMisses])
       IN  IF hasRun /\ ~hasInputChanged
           THEN /\ failedCards' = <<NoChangesFailure>>
                /\ UNCHANGED <<isProcessing, successCards, hasRun, cacheHits,
                               cacheMisses, lastProcessedInput, lastProcessedFile,
                               run, net>>
           ELSE /\ hasRun' = TRUE
                /\ IF trim(text) = <<>> \/ Len(parsedCards) = 0
                   THEN /\ failedCards' = IF trim(text) = <<>>
                                          THEN <<NoListFailure>>
                                          ELSE <<NoValidFailure>>
                        /\ successCards' = <<>>
                        /\ isProcessing' = FALSE
                        /\ run' = <<>>
                        /\ UNCHANGED <<cacheHits, cacheMisses, lastProcessedInput,
                                       lastProcessedFile, net>>
                   ELSE /\ cacheHits' = chk.cacheHits
                        /\ cacheMisses' = chk.cacheMisses
                        /\ IF Len(chk.uncachedCards) > 0
                           THEN /\ isProcessing' = TRUE
                                /\ successCards' = <<>>
                                /\ failedCards' = <<>>
                                /\ run' = [stage |-> "fetch",
                                           parsedCards |-> parsedCards,
                                           cachedResults |-> chk.cachedResults,
                                           uncachedCards |-> chk.uncachedCards,
                                           cardIndexMap |-> chk.cardIndexMap,
                                           sortOrder |-> sortOrder]
                                /\ net' = [kind |-> "request",
                                           cards |-> chk.uncachedCards,
                                           sortOrder |-> sortOrder]
                                /\ UNCHANGED <<lastProcessedInput, lastProcessedFile>>
                           ELSE Finish(parsedCards, chk, chk.cachedResults,
                                       Resolved(chk.cachedResults))
    /\ UNCHANGED <<inputText, inputFile, sortOrder, cardCache, catalog, pvars>>

MaxFaults == 1

\* the sets of at most MaxFaults failing queries over the names of cards
FaultSets(cards) ==
    LET names == {cards[k].name : k \in DOMAIN cards}
        all == [name : names, kind : {"exact", "like"}]
    IN  {fs \in SUBSET all :
            /\ Cardinality(fs) <= MaxFaults
            /\ \A f, g \in fs : f.name = g.name => f = g}

\* the batch endpoint answers the request in flight
POSTHandler ==
    /\ net.kind = "request"
    /\ \E faults \in FaultSets(net.cards) :
          net' = [kind |-> "response",
                  response |-> POST(net.cards, net.sortOrder, catalog, faults)]
    /\ UNCHANGED <<inputText, inputFile, isProcessing, successCards, failedCards,
                   hasRun, sortOrder, cardCache, cacheHits, cacheMisses,
                   lastProcessedInput, lastProcessedFile, run, runCount, catalog,
                   pvars>>

\* the endpoint without its D1 binding: httpError(500, ...)
POSTUnconfigured ==
    /\ net.kind = "request"
    /\ net' = [kind |-> "response", response |-> [ok |-> FALSE, results |-> <<>>]]
    /\ UNCHANGED <<inputText, inputFile, isProcessing, successCards, failedCards,
                   hasRun, sortOrder, cardCache, cacheHits, cacheMisses,
                   lastProcessedInput, lastProcessedFile, run, runCount, catalog,
                   pvars>>

\* fetch itself rejects (no connection): a TypeError reaches processBatch
FetchRejected ==
    /\ net.kind = "request"
    /\ Finish(run.parsedCards, run, <<>>, Rejected(TRUE, "Failed to fetch"))
    /\ UNCHANGED <<inputText, inputFile, hasRun, sortOrder, cardCache, cacheHits,
                   cacheMisses, runCount, catalog, pvars>>

\* batchLookup after its await, then processBatch and handleProcess to the end
BatchLookupResume ==
    /\ net.kind = "response"
    /\ IF ~net.response.ok
       THEN /\ Finish(run.parsedCards, run, <<>>,
                      Rejected(TRUE, "Failed to lookup cards"))
            /\ UNCHANGED cardCache
       ELSE LET allResults == MergeResults(run.cardIndexMap, 1, run.cachedResults,
                                           net.response.results, 0)
            IN  /\ cardCache' = StoreResults(cardCache, net.response.results,
                                             run.uncachedCards, sortOrder)
                /\ Finish(run.parsedCards, run, allResults, Resolved(allResults))
    /\ UNCHANGED <<inputText, inputFile, hasRun, sortOrder, cacheHits,
                   cacheMisses, runCount, catalog, pvars>>

clearCache ==
    /\ DOMAIN cardCache # {}
    /\ cardCache' = <<>>
    /\ cacheHits' = 0
    /\ cacheMisses' = 0
    /\ UNCHANGED <<inputText, inputFile, isProcessing, successCards, failedCards,
                   hasRun, sortOrder, lastProcessedInput, lastProcessedFile, run,
                   net, runCount, catalog, pvars>>

\* the user's inputs: the controls are disabled while a run is processing;
\* inputs are followed up to the last of the MaxRuns runs
L_Isle == N_Isle

L_isleF == <<"2"," ","i","s","l","e"," ","*","F","*"," ","#","t">>

L_Zz == <<"Z","z">>

L_Isl == <<"I","s","l">>

L_Pad == <<"3"," ","I","s","l","e"," ","#","p">>

RECURSIVE Repeated(_, _)
Repeated(line, n) ==
    IF n = 0 THEN <<>> ELSE <<"\n">> \o line \o Repeated(line, n - 1)

T_One == L_Isle

T_Two == L_isleF \o <<"\n">> \o L_Zz

T_Many == L_Isl \o Repeated(L_Pad, batchSize)

T_None == <<"#","t">>

Texts == {T_One, T_Two, T_Many, T_None}

Files == { [name |-> <<"b">>, content |-> <<" ", "\n">>],
           [name |-> <<"d">>, content |-> T_Two] }

TypeTextFrom(texts) ==
    /\ ~isProcessing
    /\ runCount < MaxRuns
    /\ inputFile = <<>>
    /\ \E t \in texts : t # inputText /\ inputText' = t
    /\ UNCHANGED <<inputFile, isProcessing, successCards, failedCards, hasRun,
                   sortOrder, cardCache, cacheHits, cacheMisses,
                   lastProcessedInput, lastProcessedFile, run, net, runCount,
                   catalog, pvars>>

TypeText == TypeTextFrom(Texts)

SelectFile ==
    /\ ~isProcessing
    /\ runCount < MaxRuns
    /\ \E f \in Files : inputFile # <<f>> /\ inputFile' = <<f>>
    /\ UNCHANGED <<inputText, isProcessing, successCards, failedCards, hasRun,
                   sortOrder, cardCache, cacheHits, cacheMisses,
                   lastProcessedInput, lastProcessedFile, run, net, runCount,
                   catalog, pvars>>

ClearFile ==
    /\ ~isProcessing
    /\ runCount < MaxRuns
    /\ inputFile # <<>>
    /\ inputFile' = <<>>
    /\ UNCHANGED <<inputText, isProcessing, successCards, failedCards, hasRun,
                   sortOrder, cardCache, cacheHits, cacheMisses,
                   lastProcessedInput, lastProcessedFile, run, net, runCount,
                   catalog, pvars>>

SelectSortOrder ==
    /\ ~isProcessing
    /\ runCount < MaxRuns
    /\ \E so \in SortOrders : so # sortOrder /\ sortOrder' = so
    /\ UNCHANGED <<inputText, inputFile, isProcessing, successCards, failedCards,
                   hasRun, cardCache, cacheHits, cacheMisses, lastProcessedInput,
                   lastProcessedFile, run, net, runCount, catalog, pvars>>

\* the cards table: two dated printings of Isle, and a card that only
\* contains the name; or no row at all
PageCatalogs ==
    { << Row(N_Isle, <<"m","1","1">>, <<"1","2">>, <<2011>>,
             Finishes(TRUE, {"nonfoil", "foil"})),
         Row(N_Isle, <<"l","e","a">>, <<"7">>, <<1993>>, Finishes(TRUE, {"etched"})),
         Row(N_Isles, <<"o","l","d">>, <<"U","3">>, <<1990>>, Finishes(TRUE, {})) >>,
      <<>> }

Init ==
    /\ PageConstructed
    /\ catalog \in PageCatalogs
    /\ pc = "page"
    /\ pin = <<>>
    /\ pout = <<>>

Next ==
    \/ TypeText
    \/ SelectFile
    \/ ClearFile
    \/ SelectSortOrder
    \/ clearCache
    \/ handleProcess
    \/ POSTHandler
    \/ POSTUnconfigured
    \/ FetchRejected
    \/ BatchLookupResume

Spec == Init /\ [][Next]_vars

\* the texts typed in the specification with fairness: all but the long one
ShortTexts == Texts \ {T_Many}

TypeShortText == TypeTextFrom(ShortTexts)

NextLive ==
    \/ TypeShortText
    \/ SelectFile
    \/ ClearFile
    \/ SelectSortOrder
    \/ clearCache
    \/ handleProcess
    \/ POSTHandler
    \/ POSTUnconfigured
    \/ FetchRejected
    \/ BatchLookupResume

\* the lookup call settles: the request does not stay in flight for ever, and
\* the continuation of batchLookup runs once the response is there.
\* POSTHandler, POSTUnconfigured and FetchRejected are enabled in the same
\* states (a request is in flight) and each of them ends that state, so weak
\* fairness of any of them says that it ends; it is written for the two that
\* choose no failing queries.
SpecLive ==
    /\ Init
    /\ [][NextLive]_vars
    /\ WF_vars(POSTUnconfigured \/ FetchRejected)
    /\ WF_vars(BatchLookupResume)

-----------------------------------------------------------------------------
(* The batch specification: processBatch called with a list of requests and
   a lookup function that settles in one of the ways open to it *)

\* batchLookup of the page without a cache: the body carries no sortOrder
batchLookupUncached(cards, db, faults) ==
    LET response == POST(cards, "", db, faults)
    IN  IF ~response.ok THEN Rejected(TRUE, "Failed to lookup cards")
        ELSE Resolved(response.results)

BatchTexts ==
    { <<>>, T_One, T_Two, T_Many, L_Isl, L_isleF, N_BC,
      L_Isl \o <<"\n">> \o N_BC, T_Two \o <<"\n">> \o N_BC }

BatchCardLists == { parseCardInput(t) : t \in BatchTexts }

\* the endpoint's answers over the catalogs and failing queries, and
\* rejections with an Error or with another value
Settlements(cards) ==
    { batchLookupUncached(cards, db, fs) :
          db \in ResolveCatalogs, fs \in FaultSets(cards) }
        \cup { Rejected(e, m) : e \in BOOLEAN, m \in {"Failed to fetch", ""} }

InitBatch ==
    /\ PageConstructed
    /\ catalog = <<>>
    /\ pc = "call"
    /\ \E c \in BatchCardLists :
          \E st \in Settlements(c) : pin = [cards |-> c, settled |-> st]
    /\ pout = <<>>

CallProcessBatch ==
    /\ pc = "call"
    /\ pout' = processBatch(pin.cards, pin.settled)
    /\ pc' = "returned"
    /\ UNCHANGED <<pin, svars>>

NextBatch == CallProcessBatch

SpecBatch == InitBatch /\ [][NextBatch]_vars

-----------------------------------------------------------------------------
(* Claims about parseCardInput, checked under SpecParse *)

\* the request a line with these parts is expected to yield
ExpectedCard(l, finish, tags) ==
    [name |-> l.name, quantity |-> l.qty.n, foilStatus |-> finish, tags |-> tags]

\* a line of the form "<N>x <Name> *F*"
IsNxNameFoilLine(l) ==
    /\ l.qty.style = "x"
    /\ l.name \in CanonNames
    /\ l.grp = NoGroup
    /\ l.fin = <<"*", "F", "*">>
    /\ l.tags = <<>>

\* C9: every line "<N>x <Name> *F*" whose <Name> is a card name in canonical
\* form parses to exactly one request with quantity N, foilStatus "F", name
\* <Name> and empty tags.
C9_NxNameFoil ==
    (pc = "parsed" /\ IsNxNameFoilLine(pin))
        => pout = <<ExpectedCard(pin, <<"F">>, <<>>)>>

C9_Witness ==
    /\ pc = "parsed"
    /\ IsNxNameFoilLine(pin)
    /\ pin.qty.n = MaxQty
    /\ pin.name = <<"B", "i", "g", " ", "S">>
    /\ Len(pout) = 1
    /\ pout[1].quantity = MaxQty
    /\ pout[1].foilStatus = <<"F">>

\* a line in the full target format "<q> <Name> (<SET>) <collector> *<F|E>* #<tag>"
IsFullFormatLine(l) ==
    /\ l.qty.style = "sp"
    /\ l.name \in CanonNames
    /\ l.grp # NoGroup
    /\ l.fin \in {<<"*", "F", "*">>, <<"*", "E", "*">>}
    /\ l.tags = << <<"t">> >>

\* C10: a line in full target format parses to quantity q, name <Name>, the
\* finish letter and tags "#<tag>"; the "(<SET>) <collector>" group does not
\* remain in the name, and the request (all that the lookup is given) is the
\* one the same line yields without the group.
C10_FullFormat ==
    (pc = "parsed" /\ IsFullFormatLine(pin))
        => /\ pout = <<ExpectedCard(pin, <<pin.fin[2]>>, <<"#", "t">>)>>
           /\ pout = parseCardInput(LineText([pin EXCEPT !.grp = NoGroup]))

C10_Witness ==
    /\ pc = "parsed"
    /\ IsFullFormatLine(pin)
    /\ pin.grp.set = <<"k", "h", "m">>
    /\ pin.fin = <<"*", "E", "*">>
    /\ Len(pout) = 1
    /\ pout[1].name = <<"B", " ", "(", "C", ")">>
    /\ pout[1].tags = <<"#", "t">>

-----------------------------------------------------------------------------
(* Claims about lookupCard, checked under SpecLookup *)

EqIgnoreCase(a, b) ==
    /\ Len(a) = Len(b)
    /\ \A i \in 1..Len(a) : ToLowerChar(a[i]) = ToLowerChar(b[i])

\* the rows the WHERE clause of the attempt that produced the result admits
CandidateRows ==
    LET at == IF pout.queries = <<"exact">>
              THEN ExactRows(pin.db, pin.name)
              ELSE LikeRows(pin.db, FirstWord(pin.name))
    IN  {pin.db[i] : i \in at}

KnownDate(r) == r.released_at # <<>>

\* C4: in either match attempt, with at least one candidate, "oldest" selects
\* a candidate of the earliest known release date and, among those of that
\* date, of the lowest numeric collector number; "newest" one of the latest
\* known date and, among those, of the highest numeric collector number; a
\* printing of unknown date is selected only when no candidate has a known one.
C4_SelectByPolicy ==
    (pc = "looked" /\ ~pout.threw /\ CandidateRows # {})
        => /\ pout.out.found
           /\ pout.out.result[1].released_at
                  \in {r.released_at : r \in CandidateRows}
           /\ LET sel == pout.out.result[1]
                  known == {r \in CandidateRows : KnownDate(r)}
                  num(r) == CastInteger(r.collector_number)
              IN  /\ (known # {}) => KnownDate(sel)
                  /\ \A r \in known :
                        IF pin.sortOrder = "newest"
                        THEN /\ sel.released_at[1] >= r.released_at[1]
                             /\ (sel.released_at = r.released_at
                                    => num(sel) >= num(r))
                        ELSE /\ sel.released_at[1] <= r.released_at[1]
                             /\ (sel.released_at = r.released_at
                                    => num(sel) <= num(r))

\* the fallback attempt, under "newest", with two candidates of the latest
\* date and one of unknown date
C4_Witness ==
    /\ pc = "looked"
    /\ pin.sortOrder = "newest"
    /\ pin.name = <<"I", "s", "l">>
    /\ pout.queries = <<"exact", "like">>
    /\ Cardinality(CandidateRows) = 3
    /\ \E r \in CandidateRows : ~KnownDate(r)
    /\ \E r \in CandidateRows : r.set_code = <<"m", "1", "b">>
    /\ pout.out.found
    /\ pout.out.result[1].set_code = <<"m", "1", "1">>

HasExactName(db, name) == \E i \in DOMAIN db : EqIgnoreCase(db[i].name, name)

\* C5: when the catalog holds a printing whose name equals the request name
\* case-insensitively, the printing selected has that name (and one is
\* selected unless the query failed); the substring fallback is attempted only
\* when the exact attempt returned no row.
C5_ExactBeforeFallback ==
    (pc = "looked")
        => /\ HasExactName(pin.db, pin.name)
                => /\ pout.out.found
                       => EqIgnoreCase(pout.out.result[1].name, pin.name)
                   /\ ~pout.threw => pout.out.found
           /\ (\E k \in DOMAIN pout.queries : pout.queries[k] = "like")
                => ~HasExactName(pin.db, pin.name)

\* an older printing whose name only contains the request name is passed over
C5_Witness ==
    /\ pc = "looked"
    /\ pin.sortOrder = "oldest"
    /\ pin.name = <<"I", "S", "L", "E">>
    /\ \E i \in DOMAIN pin.db : pin.db[i].name = N_Isles
    /\ pout.queries = <<"exact">>
    /\ pout.out.found
    /\ pout.out.result[1].name = N_Isle
    /\ pout.out.result[1].set_code = <<"l", "e", "a">>

-----------------------------------------------------------------------------
(* Claims about the rendered line, checked under SpecResolve *)

\* the finish the line asks for
RequestedFinish(l) == IF l.fin = <<>> THEN <<>> ELSE <<ToUpperChar(l.fin[2])>>

\* the tags the line carries, as one string
RequestedTags(l) ==
    join([k \in 1..Len(l.tags) |-> <<"#">> \o l.tags[k]], <<" ">>)

EffectiveFinish(requested, row) ==
    IF requested # <<>> THEN requested
    ELSE IF "foil" \in row.finishes.items THEN <<"F">>
    ELSE IF "etched" \in row.finishes.items THEN <<"E">>
    ELSE <<>>

ExpectedLine(l, row) ==
    LET finish == EffectiveFinish(RequestedFinish(l), row)
        tags == RequestedTags(l)
    IN  NumberToString(l.qty.n) \o <<" ">> \o row.name \o <<" ", "(">>
            \o toUpperCase(row.set_code) \o <<")", " ">> \o row.collector_number
            \o (IF finish = <<>> THEN <<>> ELSE <<" ", "*">> \o finish \o <<"*">>)
            \o (IF tags = <<>> THEN <<>> ELSE <<" ">> \o tags)

\* C3: the line rendered for a matched request is exactly
\* "<quantity> <name> (<SETCODE>) <collector>", then " *<finish>*" iff the
\* effective finish is non-empty, then " <tags>" iff the tags are non-empty;
\* the effective finish is the requested one if any, else F if the printing's
\* finishes include foil, else E if they include etched, else empty.
C3_RenderedLine ==
    (pc = "resolved" /\ Len(pout.results) = 1 /\ pout.results[1].found)
        => /\ pout.first.success
                  = <<ExpectedLine(pin.line, pout.results[1].result[1])>>
           /\ pout.first.failed = <<>>

\* no requested finish, a printing with etched only, lower-case set code, tags
C3_Witness ==
    /\ pc = "resolved"
    /\ pin.line.fin = <<>>
    /\ pin.line.name = <<"I", "s", "l">>
    /\ pout.first.success =
          << <<"1","2"," ","I","s","l","e","s"," ","(","O","L","D",")"," ",
               "U","3"," ","*","E","*"," ","#","t"," ","#","u"," ","v">> >>

\* C8: a rendered line, parsed and resolved again against the same catalog
\* under the same policy (the queries succeeding), yields exactly one success
\* line, equal to it, and no failure.
C8_RoundTrip ==
    (pc = "again")
        => \A k \in 1..Len(pout.first.success) :
              pout.again[k] = [success |-> <<pout.first.success[k]>>,
                               failed |-> <<>>]

\* a line matched by the fallback, finish taken from the catalog, with tags
C8_Witness ==
    /\ pc = "again"
    /\ pin.line.name = <<"I", "s", "l">>
    /\ pin.line.fin = <<>>
    /\ pin.line.tags # <<>>
    /\ Len(pin.db) = 2
    /\ Len(pout.first.success) = 1
    /\ pout.results[1].result[1].foilStatus = <<"F">>
    /\ pout.again[1].success = pout.first.success

-----------------------------------------------------------------------------
(* Claims about a run of the page: handleProcess, batchLookup, processBatch *)

StartsWith(s, p) == Len(s) >= Len(p) /\ SubSeq(s, 1, Len(p)) = p

EndsWith(s, p) == Len(s) >= Len(p) /\ SubSeq(s, Len(s) - Len(p) + 1, Len(s)) = p

\* processBatch has returned to handleProcess
RunDone == run # <<>> /\ run.stage = "done"

RunRejected == RunDone /\ run.settled.kind # "resolved"

\* the line shows the quantity given, and ends with the finish and tags given
CarriesRequest(line, card, finish) ==
    /\ StartsWith(line, NumberToString(card.quantity) \o <<" ">>)
    /\ EndsWith(line,
                (IF finish # <<>> THEN <<" ", "*">> \o finish \o <<"*">> ELSE <<>>)
                    \o (IF card.tags # <<>> THEN <<" ">> \o card.tags ELSE <<>>))

\* requests i.. are shared out, in order, between the success lines s.. and
\* the failure entries f.., each entry taken by exactly one request
RECURSIVE Partitioned(_, _, _, _, _, _)
Partitioned(requests, i, success, s, failed, f) ==
    IF i > Len(requests)
    THEN s = Len(success) + 1 /\ f = Len(failed) + 1
    ELSE \/ /\ s <= Len(success)
            /\ StartsWith(success[s],
                          NumberToString(requests[i].quantity) \o <<" ">>)
            /\ Partitioned(requests, i + 1, success, s + 1, failed, f)
         \/ /\ f <= Len(failed)
            /\ failed[f].name = requests[i].name
            /\ Partitioned(requests, i + 1, success, s, failed, f + 1)

\* C1: when a run over a list of parsed requests ends, every request has
\* exactly one entry, in success or in failed: the two lists together hold as
\* many entries as there were requests, and the entries can be shared out one
\* per request (a line with the request's quantity, or a failure with its name).
C1_Partition ==
    RunDone =>
        /\ successCards = run.results.success
        /\ failedCards = run.results.failed
        /\ Len(successCards) + Len(failedCards) = Len(run.parsedCards)
        /\ Partitioned(run.parsedCards, 1, successCards, 1, failedCards, 1)

\* batchSize + 1 requests, some served from the cache, one fetched and not
\* found, the others rendered
C1_Witness ==
    /\ RunDone
    /\ Len(run.parsedCards) = batchSize + 1
    /\ Len(run.cachedResults) = batchSize
    /\ Len(successCards) = batchSize
    /\ Len(failedCards) = 1

\* the positions of the matched requests, from i on
RECURSIVE FoundIndexes(_, _)
FoundIndexes(results, i) ==
    IF i > Len(results) THEN <<>>
    ELSE (IF results[i].found THEN <<i>> ELSE <<>>) \o FoundIndexes(results, i + 1)

\* C2: the k-th rendered line belongs to the k-th matched request of the run
\* and shows that request's quantity, tags and requested finish (the
\* printing's finish only when the request asked for none), whether the
\* lookup result was fetched or came from the cache.
C2_RequestFields ==
    RunDone =>
        LET found == FoundIndexes(run.allResults, 1)
        IN  /\ Len(successCards) = Len(found)
            /\ \A k \in DOMAIN found :
                  LET card == run.parsedCards[found[k]]
                      printing == run.allResults[found[k]].result[1]
                  IN  CarriesRequest(successCards[k], card,
                                     IF card.foilStatus # <<>>
                                     THEN card.foilStatus
                                     ELSE printing.foilStatus)

\* "2 isle *F* #t" answered from the entry cached for "Isle" (quantity 1, no
\* finish, no tags), whose printing is etched
C2_Witness ==
    /\ RunDone
    /\ Len(run.cachedResults) = 1
    /\ run.cachedResults[1].result # <<>>
    /\ run.cachedResults[1].result[1].foilStatus = <<"E">>
    /\ run.cachedResults[1].originalCard.foilStatus = <<"F">>
    /\ Len(successCards) = 1
    /\ successCards[1] = <<"2"," ","I","s","l","e"," ","(","L","E","A",")"," ","7",
                           " ","*","F","*"," ","#","t">>

NoRows(name) ==
    /\ ExactRows(catalog, trim(name)) = {}
    /\ LikeRows(catalog, FirstWord(trim(name))) = {}

\* C6: a request is reported in failed with the reason "Card not found in
\* database" when, and only when, both match attempts returned no row for its
\* name; a request whose catalog query failed is not reported as not found.
C6_NotFoundIffNoRows ==
    RunDone =>
        /\ \A k \in DOMAIN failedCards :
              failedCards[k].reason = NotFoundReason => NoRows(failedCards[k].name)
        /\ ~RunRejected =>
              \A i \in DOMAIN run.parsedCards :
                  NoRows(run.parsedCards[i].name) =>
                      \E k \in DOMAIN failedCards :
                          /\ failedCards[k].name = run.parsedCards[i].name
                          /\ failedCards[k].reason = NotFoundReason

\* C7: when the lookup rejects during a run over more than batchSize requests,
\* exactly the batchSize requests of one sub-batch get a failure entry with
\* the error's message; the requests of the other sub-batches do not.
C7_SubBatchFailure ==
    (RunRejected /\ Len(run.parsedCards) > batchSize) =>
        Cardinality({k \in DOMAIN failedCards :
                        failedCards[k].reason = run.settled.message}) = batchSize

-----------------------------------------------------------------------------
(* Further claims about parseCardInput *)

\* a line that holds a quantity and no name: "4", "4x", "4 #t"
IsQuantityOnlyLine(l) ==
    /\ l.qty # NoQty
    /\ l.qty.n >= 1
    /\ l.name = <<>>
    /\ l.grp = NoGroup
    /\ l.fin = <<>>

\* C11: a line containing only a quantity and no name (followed by nothing
\* or only by tags) produces no request: the whole line is discarded.
C11_QuantityOnlyDiscarded ==
    (pc = "parsed" /\ IsQuantityOnlyLine(pin)) => pout = <<>>

\* the line starts with no digits: it has no quantity prefix
HasNoQuantityPrefix(l) ==
    /\ l.qty = NoQty
    /\ (l.name = <<>> \/ ~IsDigit(l.name[1]))

\* C12: every request parseCardInput emits has quantity >= 1, and quantity 1
\* when its line has no quantity prefix.
C12_QuantityAtLeastOne ==
    pc = "parsed" =>
        \A k \in DOMAIN pout :
            /\ pout[k].quantity >= 1
            /\ HasNoQuantityPrefix(pin) => pout[k].quantity = 1

\* a line "<N> <Name> F" or "<N> <Name> E": the finish letter without asterisks
IsBareFinishLine(l) ==
    /\ l.qty.style = "sp"
    /\ l.qty.n >= 1
    /\ l.name \in CanonNames
    /\ l.grp = NoGroup
    /\ l.fin \in {<<"F">>, <<"E">>}
    /\ l.tags = <<>>

\* C13: a line "<N> <Name> F" or "<N> <Name> E" parses to quantity N, name
\* <Name> and foilStatus "F" or "E", as the doc comment of parseCardInput and
\* the README's input format say.
C13_BareFinishLetter ==
    (pc = "parsed" /\ IsBareFinishLine(pin))
        => pout = <<ExpectedCard(pin, pin.fin, <<>>)>>

\* the name is written with slashes, apart from any quantity, and nothing
\* but tags stands after it
IsSlashNameLine(l) ==
    /\ l.qty.style # "bare"
    /\ l.name \in SlashNames \cup {<<"A"," ","/","/"," ","B">>}
    /\ l.grp = NoGroup
    /\ l.fin = <<>>

\* every "/" of the name doubled
RECURSIVE DoubleSlashes(_)
DoubleSlashes(n) ==
    IF Len(n) = 0 THEN <<>>
    ELSE (IF n[1] = "/" THEN <<"/", "/">> ELSE <<n[1]>>) \o DoubleSlashes(Tail(n))

\* no two slashes of the name share one padding space (" / / ")
HasOwnPadding(n) ==
    \A i \in 1..(Len(n) - 2) : ~(n[i] = "/" /\ n[i + 1] = " " /\ n[i + 2] = "/")

-----------------------------------------------------------------------------
(* Claims about the session cache *)

\* what a cache entry keeps of the answers lookupCard can give for a name
\* under a policy, whether its queries succeed or one of them fails
LookupOutcomes(name, p) ==
    { [found |-> lookupCard(Request(name), catalog, p, f).found,
       result |-> lookupCard(Request(name), catalog, p, f).result] : f \in Faults }

\* C15: every cache entry is stored under a lowercased name and a policy and
\* holds an outcome of the lookup of that name under that policy; and the
\* outcomes a run took from the cache are outcomes of the lookup of the
\* requested name under the policy of that run, never under the other one.
C15_CacheKeyedByPolicy ==
    /\ \A k \in DOMAIN cardCache :
          \E p \in SortOrders :
              /\ EndsWith(k, <<"_">> \o SortOrderText(p))
              /\ SubSeq(k, 1, Len(k) - 7) = toLowerCase(SubSeq(k, 1, Len(k) - 7))
              /\ cardCache[k] \in LookupOutcomes(SubSeq(k, 1, Len(k) - 7), p)
    /\ run # <<>> =>
          \A j \in DOMAIN run.cachedResults :
              [found |-> run.cachedResults[j].found,
               result |-> run.cachedResults[j].result]
                  \in LookupOutcomes(run.cachedResults[j].originalCard.name,
                                     run.sortOrder)

K_isle_oldest == <<"i","s","l","e","_","o","l","d","e","s","t">>

K_isle_newest == <<"i","s","l","e","_","n","e","w","e","s","t">>

\* "Isle" was cached under oldest (LEA); the run under newest does not take
\* it from the cache and stores the newest printing (M11) under its own key
C15_Witness ==
    /\ RunDone
    /\ run.sortOrder = "newest"
    /\ run.cachedResults = <<>>
    /\ K_isle_oldest \in DOMAIN cardCache
    /\ K_isle_newest \in DOMAIN cardCache
    /\ cardCache[K_isle_oldest].found
    /\ cardCache[K_isle_newest].found
    /\ cardCache[K_isle_oldest].result[1].set_code = <<"l","e","a">>
    /\ cardCache[K_isle_newest].result[1].set_code = <<"m","1","1">>
    /\ successCards = << <<"1"," ","I","s","l","e"," ","(","M","1","1",")"," ",
                           "1","2"," ","*","F","*">> >>

-----------------------------------------------------------------------------
(* Claims about processBatch *)

\* C16: however the lookup function settles (resolved, rejected with an
\* Error, rejected with another value), processBatch returns a value with the
\* fields success and failed; after a rejection success is empty and failed
\* holds one entry per request, in order, with the request's name and the
\* Error's message, or "Unknown error" when the value is no Error.
C16_NeverRejects ==
    pc = "returned" =>
        /\ DOMAIN pout = {"success", "failed"}
        /\ pin.settled.kind # "resolved" =>
              /\ pout.success = <<>>
              /\ Len(pout.failed) = Len(pin.cards)
              /\ \A k \in DOMAIN pin.cards :
                    pout.failed[k] =
                        [name |-> pin.cards[k].name,
                         reason |-> IF pin.settled.kind = "error"
                                    THEN pin.settled.message
                                    ELSE "Unknown error"]

\* batchSize + 1 requests and a lookup that rejects with a value that is no Error
C16_Witness ==
    /\ pc = "returned"
    /\ pin.settled.kind = "thrown"
    /\ Len(pin.cards) = batchSize + 1
    /\ Len(pout.failed) = batchSize + 1
    /\ pout.failed[batchSize + 1].reason = "Unknown error"

-----------------------------------------------------------------------------
(* Claims about the cache against the lookup without it *)

\* the requests of the finished run that were sent to the endpoint, from i on
RECURSIVE FetchedCards(_)
FetchedCards(i) ==
    IF i > Len(run.parsedCards) THEN <<>>
    ELSE (IF run.cardIndexMap[i] < 0 THEN <<run.parsedCards[i]>> ELSE <<>>)
             \o FetchedCards(i + 1)

\* C17: the lists of every finished run are those the same run gives when
\* all its requests go to the endpoint with no cache in between, the catalog
\* being unchanged and queries failing, if at all, only for requests this run
\* itself sent; this also after an earlier run in which a query failed.
C17_CacheTransparent ==
    (RunDone /\ ~RunRejected) =>
        \E fs \in FaultSets(FetchedCards(1)) :
            LET bypassed ==
                    processBatch(run.parsedCards,
                        Resolved(POST(run.parsedCards, run.sortOrder, catalog,
                                      fs).results))
            IN  /\ successCards = bypassed.success
                /\ failedCards = bypassed.failed

-----------------------------------------------------------------------------
(* Claims about the order of results *)

\* the positions of the requests that were not matched, from i on
RECURSIVE MissedIndexes(_, _)
MissedIndexes(results, i) ==
    IF i > Len(results) THEN <<>>
    ELSE (IF results[i].found THEN <<>> ELSE <<i>>) \o MissedIndexes(results, i + 1)

\* the line for a request and the printing matched to it
LineFor(card, printing) ==
    LET finish == IF card.foilStatus # <<>> THEN card.foilStatus
                  ELSE printing.foilStatus
    IN  NumberToString(card.quantity) \o <<" ">> \o printing.name \o <<" ", "(">>
            \o toUpperCase(printing.set_code) \o <<")", " ">>
            \o printing.collector_number
            \o (IF finish # <<>> THEN <<" ", "*">> \o finish \o <<"*">> ELSE <<>>)
            \o (IF card.tags # <<>> THEN <<" ">> \o card.tags ELSE <<>>)

\* C18: in a run whose lookup resolved, the i-th result batchLookup returned
\* is an outcome of the lookup of the i-th request, whichever of them came
\* from the cache; success holds the lines of the matched requests and
\* failed the names of the others, each in the order of the requests.
C18_ResultOrder ==
    (RunDone /\ ~RunRejected) =>
        LET found == FoundIndexes(run.allResults, 1)
            missed == MissedIndexes(run.allResults, 1)
        IN  /\ Len(run.allResults) = Len(run.parsedCards)
            /\ \A i \in DOMAIN run.parsedCards :
                  /\ run.allResults[i].originalCard = run.parsedCards[i]
                  /\ [found |-> run.allResults[i].found,
                      result |-> run.allResults[i].result]
                         \in LookupOutcomes(run.parsedCards[i].name, run.sortOrder)
            /\ successCards =
                  [k \in DOMAIN found |->
                      LineFor(run.parsedCards[found[k]],
                              run.allResults[found[k]].result[1])]
            /\ failedCards =
                  [k \in DOMAIN missed |->
                      [name |-> run.parsedCards[missed[k]].name,
                       reason |-> NotFoundReason]]

\* "Isl" is fetched and the batchSize requests after it come from the cache
C18_Witness ==
    /\ RunDone
    /\ ~RunRejected
    /\ Len(run.parsedCards) = batchSize + 1
    /\ run.cardIndexMap[1] < 0
    /\ \A i \in 2..(batchSize + 1) : run.cardIndexMap[i] = i - 2
    /\ Len(successCards) = batchSize + 1
    /\ StartsWith(successCards[1], <<"1"," ","I","s","l","e","s"," ","(","O","L","D",")">>)
    /\ StartsWith(successCards[2], <<"3"," ","I","s","l","e"," ","(","L","E","A",")">>)

-----------------------------------------------------------------------------
(* Claims about the runs of handleProcess *)

\* the input is the one the last completed run looked up
InputUnchanged ==
    /\ RunDone
    /\ ~RunRejected
    /\ IF inputFile # <<>>
       THEN inputFile[1].name = lastProcessedFile
       ELSE lastProcessedFile = <<>> /\ inputText = lastProcessedInput

\* C19: once a run has completed, a call of handleProcess with the text (or
\* the file) that run processed sends no lookup and reports the single
\* failure "No changes detected...".
C19_NoReprocessing ==
    [][ (InputUnchanged /\ runCount' = runCount + 1)
            => (net' = Idle /\ failedCards' = <<NoChangesFailure>>) ]_vars

\* C20: a run of handleProcess that is processing ends with isProcessing =
\* FALSE whenever its lookup call settles, whether resolved or rejected; and
\* the page is in the processing state only while a lookup is in flight, so a
\* run that returns early (blank input, no valid cards) or has ended does not
\* leave it set.
C20_ProcessingEnds ==
    /\ [](isProcessing => net.kind # "idle")
    /\ (isProcessing ~> ~isProcessing)

\* a run whose lookup was rejected has ended and the page is idle again
C20_Witness ==
    /\ RunRejected
    /\ run.settled.message = "Failed to lookup cards"
    /\ ~isProcessing
    /\ net = Idle
    /\ Len(failedCards) = 2

====
